---------------------------- MODULE Spec2Model ----------------------------
(***************************************************************************)
(* A model of src/main.py: the Tick time-tracker tools (get_time_entries,  *)
(* create_time_entry, update_time_entry, delete_time_entry, list_projects, *)
(* get_project_tasks, get_time_summary_by_period) and the TickAPI client   *)
(* they are built on, talking to a remote service that answers one request *)
(* at a time.                                                              *)
(*                                                                         *)
(* Python values are encoded as follows.  An optional value (None or v) is *)
(* the sequence <<>> or <<v>>.  A str is a sequence of one-character       *)
(* strings, so that lower(), "in" and strptime work on the characters.  A  *)
(* dict is the sequence of its <<key, value>> pairs in insertion order.    *)
(***************************************************************************)
EXTENDS Integers, Sequences, FiniteSets, TLC

(***************************************************************************)
(* Bounds of the model.                                                    *)
(***************************************************************************)
\* longest project listing on the remote service
MaxProjects == 3
\* longest time-entry listing on the remote service at the start
MaxEntries == 5
\* records per page served by the remote service
PageSize == 2
\* creates and deletes made by other clients during a round trip
MaxOther == 2

(***************************************************************************)
(* Optional values and truthiness.                                         *)
(***************************************************************************)
None == <<>>

Some(v) == <<v>>

IsNone(o) == o = <<>>

\* "not x" for x: Optional[int]  (None and 0 are falsy)
FalsyInt(o) == o = None \/ o[1] = 0

\* "not x" for x: Optional[str]  (None and "" are falsy)
FalsyStr(o) == o = None \/ o[1] = <<>>

Max(a, b) == IF a >= b THEN a ELSE b

Min(a, b) == IF a <= b THEN a ELSE b

(***************************************************************************)
(* str.lower() and the substring test "a in b".                            *)
(***************************************************************************)
UpperCase == <<"A", "B", "C", "D", "E", "Q", "V", "X", "Z">>

LowerCase == <<"a", "b", "c", "d", "e", "q", "v", "x", "z">>

\* the letters the model's names are written in; any other character is kept
LowerChar(c) ==
  IF \E i \in 1..Len(UpperCase) : UpperCase[i] = c
  THEN LowerCase[CHOOSE i \in 1..Len(UpperCase) : UpperCase[i] = c]
  ELSE c

Lower(s) == [i \in 1..Len(s) |-> LowerChar(s[i])]

\* needle in hay: some window of hay equals needle; "" is in every str
Contains(needle, hay) ==
  \E i \in 0..(Len(hay) - Len(needle)) :
    \A j \in 1..Len(needle) : hay[i + j] = needle[j]

(***************************************************************************)
(* datetime: the proleptic Gregorian calendar of Python's datetime module  *)
(* (imported at line 4), as far as the tools use it: strptime with the     *)
(* format "%Y-%m-%d", strftime with the same format, weekday(), replace()  *)
(* and the addition of a timedelta of whole days.  A date is a record      *)
(* [y, m, d]; an operation that raises returns None.                       *)
(***************************************************************************)
MINYEAR == 1

MAXYEAR == 9999

Digits == <<"0", "1", "2", "3", "4", "5", "6", "7", "8", "9">>

DigitValues ==
  [c \in {Digits[i] : i \in 1..10} |-> (CHOOSE i \in 1..10 : Digits[i] = c) - 1]

IsDigit(c) == c \in DOMAIN DigitValues

DigitVal(c) == DigitValues[c]

AllDigits(s) == \A i \in 1..Len(s) : IsDigit(s[i])

RECURSIVE NumValTo(_, _)
NumValTo(s, n) ==
  IF n = 0 THEN 0 ELSE 10 * NumValTo(s, n - 1) + DigitVal(s[n])

\* the number a string of digits writes
NumVal(s) == NumValTo(s, Len(s))

IsLeap(y) == y % 4 = 0 /\ (y % 100 # 0 \/ y % 400 = 0)

DaysInMonth(y, m) ==
  IF m = 2 THEN (IF IsLeap(y) THEN 29 ELSE 28)
  ELSE IF m \in {4, 6, 9, 11} THEN 30 ELSE 31

\* the days of a common year before each month
DaysBeforeMonthTable == <<0, 31, 59, 90, 120, 151, 181, 212, 243, 273, 304, 334>>

DaysBeforeMonth(y, m) ==
  DaysBeforeMonthTable[m] + (IF m > 2 /\ IsLeap(y) THEN 1 ELSE 0)

DaysBeforeYear(y) ==
  (y - 1) * 365 + ((y - 1) \div 4) - ((y - 1) \div 100) + ((y - 1) \div 400)

ValidDate(y, m, d) ==
  /\ y \in MINYEAR..MAXYEAR
  /\ m \in 1..12
  /\ d \in 1..DaysInMonth(y, m)

\* date.toordinal(): 0001-01-01 is day 1
ToOrdinal(dt) == DaysBeforeYear(dt.y) + DaysBeforeMonth(dt.y, dt.m) + dt.d

MaxOrdinal == ToOrdinal([y |-> MAXYEAR, m |-> 12, d |-> 31])

\* date.fromordinal(n), for 1 <= n <= MaxOrdinal
FromOrdinal(n) ==
  LET n0   == n - 1
      n400 == n0 \div 146097
      r400 == n0 % 146097
      n100 == r400 \div 36524
      r100 == r400 % 36524
      n4   == r100 \div 1461
      r4   == r100 % 1461
      n1   == r4 \div 365
      r1   == r4 % 365
      year == n400 * 400 + 1 + n100 * 100 + n4 * 4 + n1
  IN  IF n1 = 4 \/ n100 = 4
      THEN [y |-> year - 1, m |-> 12, d |-> 31]
      ELSE LET month == CHOOSE k \in 1..12 :
                          /\ DaysBeforeMonth(year, k) <= r1
                          /\ r1 < DaysBeforeMonth(year, k) + DaysInMonth(year, k)
           IN  [y |-> year, m |-> month, d |-> r1 - DaysBeforeMonth(year, month) + 1]

\* date.weekday(): Monday is 0, Sunday is 6
Weekday(dt) == (ToOrdinal(dt) + 6) % 7

\* dt + timedelta(days=n); OverflowError outside MINYEAR..MAXYEAR
AddDays(dt, n) ==
  LET o == ToOrdinal(dt) + n
  IN  IF o < 1 \/ o > MaxOrdinal THEN None ELSE Some(FromOrdinal(o))

\* dt.replace(year=y, month=m, day=d); ValueError when that is no date
Replace(y, m, d) ==
  IF ValidDate(y, m, d) THEN Some([y |-> y, m |-> m, d |-> d]) ELSE None

Pad(n, width) ==
  [i \in 1..width |-> Digits[((n \div (10 ^ (width - i))) % 10) + 1]]

\* dt.strftime("%Y-%m-%d"), for the years 1000..9999 (four digits)
Strftime(dt) == Pad(dt.y, 4) \o <<"-">> \o Pad(dt.m, 2) \o <<"-">> \o Pad(dt.d, 2)

\* datetime.strptime(s, "%Y-%m-%d"): the date, or None for ValueError.
\* %Y is four digits; %m and %d are one or two digits (%d also a space and
\* a digit); nothing may follow; the fields must name a date.
Strptime(s) ==
  LET dashes == {i \in 1..Len(s) : s[i] = "-"}
  IN  IF Cardinality(dashes) # 2 THEN None
      ELSE
        LET p1 == CHOOSE i \in dashes : \A j \in dashes : i <= j
            p2 == CHOOSE i \in dashes : \A j \in dashes : i >= j
            ys == SubSeq(s, 1, p1 - 1)
            ms == SubSeq(s, p1 + 1, p2 - 1)
            ds0 == SubSeq(s, p2 + 1, Len(s))
            ds == IF Len(ds0) = 2 /\ ds0[1] = " " THEN SubSeq(ds0, 2, 2) ELSE ds0
            okY == Len(ys) = 4 /\ AllDigits(ys)
            okM == Len(ms) \in {1, 2} /\ AllDigits(ms)
            okD == Len(ds) \in {1, 2} /\ AllDigits(ds)
                   /\ (Len(ds0) = 2 /\ ds0[1] = " " => ds[1] # "0")
            yv == NumVal(ys)
            mv == NumVal(ms)
            dv == NumVal(ds)
        IN  IF okY /\ okM /\ okD /\ ValidDate(yv, mv, dv)
            THEN Some([y |-> yv, m |-> mv, d |-> dv])
            ELSE None

(***************************************************************************)
(* The state.  The remote service holds the listings; the client holds one *)
(* tool invocation: its arguments, its position and its local variables.   *)
(***************************************************************************)
VARIABLES
  projects,     \* remote: the project listing, [id, name]
  tasks,        \* remote: the task listing of a project, [id, name]
  entries,      \* remote: the time entries, in creation order
  nextId,       \* remote: the id the next created entry gets
  call,         \* the tool invoked and its arguments
  pc,           \* where the invocation is
  page,         \* get_all_projects / get_all_time_entries: page
  acc,          \* get_all_projects / get_all_time_entries: all_projects, all_entries
  project_id,   \* the project id find_project_id returned
  task_id,      \* create_time_entry: the task id found
  window,       \* the start_date and end_date passed to get_all_time_entries
  anchor,       \* get_time_summary_by_period: target_date
  inflight,     \* the requests issued and not yet answered
  log,          \* every request issued by the invocation, in order
  result,       \* what the tool returned
  failedAt,     \* the length of log when a request failed (0: none did)
  created,      \* round trip: the id of the entry the create made
  others,       \* round trip: creates and deletes by other clients so far
  disturbed,    \* round trip: another client changed the listing during the fetch
  remote_users, \* remote: the user listing, [id]
  users         \* get_team_overview: users

remote == <<projects, tasks, entries, nextId, remote_users>>

locals == <<page, acc, project_id, task_id, window, anchor, users>>

history == <<created, others, disturbed>>

vars == <<projects, tasks, entries, nextId, call, pc, page, acc, project_id,
          task_id, window, anchor, inflight, log, result, failedAt,
          created, others, disturbed, remote_users, users>>

(***************************************************************************)
(* The values the model draws from.                                        *)
(***************************************************************************)
ProjectNames == {<<"A", "b">>, <<"a", "B", "c">>, <<"X">>}

ProjectQueries == {<<"a", "b">>, <<"C">>, <<"z">>, <<>>}

ProjectIds == {0, 1, 2}

TaskNames == {<<"D", "e", "v">>, <<"Q", "A">>}

TaskQueries == {<<"d", "E">>, <<"z">>}

Day1 == <<"2", "0", "2", "4", "-", "0", "3", "-", "0", "1">>

Day2 == <<"2", "0", "2", "4", "-", "0", "3", "-", "0", "2">>

\* accepted by strptime although not zero-padded
Day1Short == <<"2", "0", "2", "4", "-", "3", "-", "1">>

\* rejected by strptime: no such day, wrong separators
NoSuchDay == <<"2", "0", "2", "4", "-", "0", "2", "-", "3", "0">>

Slashes == <<"0", "3", "/", "0", "1", "/", "2", "0", "2", "4">>

Note == <<"n">>

\* the sequences over S of length 0..n
SeqsUpTo(S, n) == UNION {[1..k -> S] : k \in 0..n}

DistinctIds(l) == \A i, j \in 1..Len(l) : i # j => l[i].id # l[j].id

ProjectListings ==
  {l \in SeqsUpTo([id : ProjectIds, name : ProjectNames], MaxProjects) : DistinctIds(l)}

TaskListings ==
  { <<>>,
    <<[id |-> 1, name |-> <<"D", "e", "v">>]>>,
    <<[id |-> 0, name |-> <<"D", "e", "v">>], [id |-> 1, name |-> <<"Q", "A">>]>>,
    <<[id |-> 2, name |-> <<"Q", "A">>], [id |-> 1, name |-> <<"d", "e", "V">>]>> }

\* a time entry as the remote service returns it; project, user, hours and
\* date may be missing from the JSON object
Entry(i, pid, pname, uname, h, d) ==
  [id |-> i, project_id |-> pid, project |-> pname, user |-> uname,
   task_id |-> 1, hours |-> h, date |-> d, notes |-> <<>>]

\* the i-th entry of the standing listing: two projects, two days
StockEntry(i) ==
  Entry(i, 1 + (i % 2), Some(IF i % 2 = 1 THEN <<"A", "b">> ELSE <<"X">>),
        Some(<<"u">>), Some(i), Some(IF i % 3 = 0 THEN Day2 ELSE Day1))

StockEntries(n) == [i \in 1..n |-> StockEntry(i)]

StockProjects == <<[id |-> 2, name |-> <<"A", "b">>], [id |-> 1, name |-> <<"X">>]>>

StockTasks == <<[id |-> 1, name |-> <<"D", "e", "v">>]>>

(***************************************************************************)
(* TickAPI: the request each method builds, and make_request.              *)
(***************************************************************************)
NoParams == [page |-> None, start_date |-> None, end_date |-> None]

\* a dict body: an absent key is None
NoData == [task_id |-> None, hours |-> None, date |-> None, notes |-> None]

\* "if data:" and "if params:": an empty dict is not sent
make_request(url, id, method, data, params) ==
  [method |-> method, url |-> url, id |-> id,
   json |-> IF data = NoData THEN None ELSE Some(data),
   params |-> params]

\* make_request without raise_for_status(): every response is read as json
make_request_lenient(status, json) == [raised |-> FALSE, value |-> json]

\* response.status 304 -> not_modified; raise_for_status(); response.json()
make_request_result(status, json) ==
  IF status = 304 THEN [raised |-> FALSE, value |-> <<"not_modified">>]
  ELSE IF status >= 400 THEN [raised |-> TRUE, value |-> <<>>]
  ELSE [raised |-> FALSE, value |-> json]

\* params = {"page": page} if page > 1 else None
TickAPI_get_projects(p) ==
  make_request("projects", None, "GET", NoData,
               [NoParams EXCEPT !.page = IF p > 1 THEN Some(p) ELSE None])

TickAPI_get_time_entries(pid, start, end, p) ==
  make_request(IF FalsyInt(pid) THEN "time_entries" ELSE "project_time_entries",
               IF FalsyInt(pid) THEN None ELSE pid,
               "GET", NoData,
               [page |-> IF p > 1 THEN Some(p) ELSE None,
                start_date |-> IF FalsyStr(start) THEN None ELSE start,
                end_date |-> IF FalsyStr(end) THEN None ELSE end])

TickAPI_create_time_entry(pid, tid, hours, date, notes) ==
  make_request("project_time_entries", Some(pid), "POST",
               [task_id |-> Some(tid), hours |-> Some(hours),
                date |-> Some(date), notes |-> Some(notes)],
               NoParams)

\* update_time_entry testing "if hours:" / "if notes:" instead: 0 and ""
\* are left out of the body
TickAPI_update_time_entry_truthy(eid, hours, notes) ==
  make_request("time_entry", Some(eid), "PUT",
               [NoData EXCEPT !.hours = IF FalsyInt(hours) THEN None ELSE hours,
                              !.notes = IF FalsyStr(notes) THEN None ELSE notes],
               NoParams)

\* a field is put in the body when it "is not None"
TickAPI_update_time_entry(eid, hours, notes) ==
  make_request("time_entry", Some(eid), "PUT",
               [NoData EXCEPT !.hours = hours, !.notes = notes],
               NoParams)

TickAPI_delete_time_entry(eid) ==
  make_request("time_entry", Some(eid), "DELETE", NoData, NoParams)

TickAPI_get_tasks(pid) ==
  make_request("tasks", Some(pid), "GET", NoData, NoParams)

(***************************************************************************)
(* The remote service.  A listing is served in pages of PageSize records;  *)
(* a request without a page parameter is a request for page 1.  The time   *)
(* entries are listed in creation order, narrowed to the project of the    *)
(* URL and to the dates start_date..end_date (an entry without a date is   *)
(* not narrowed away).                                                     *)
(***************************************************************************)
PageOf(listing, p) ==
  SubSeq(listing, (p - 1) * PageSize + 1, Min(p * PageSize, Len(listing)))

DateOrd(s) == LET d == Strptime(s) IN IF d = None THEN 0 ELSE ToOrdinal(d[1])

\* entry e is of the project of request r and within the dates from..to
\* (day numbers; 0 stands for no bound)
Listed(e, r, from, to) ==
  /\ r.url = "project_time_entries" => e.project_id = r.id[1]
  /\ (e.date # None /\ (from # 0 \/ to # 0)) =>
        LET day == DateOrd(e.date[1])
        IN  (from # 0 => from <= day) /\ (to # 0 => day <= to)

ListingOf(r) ==
  CASE r.url = "projects" -> projects
    [] r.url = "tasks" -> tasks
    [] r.url = "users" -> remote_users
    [] OTHER ->
         LET from == IF r.params.start_date = None THEN 0
                     ELSE DateOrd(r.params.start_date[1])
             to == IF r.params.end_date = None THEN 0
                   ELSE DateOrd(r.params.end_date[1])
         IN  SelectSeq(entries, LAMBDA e : Listed(e, r, from, to))

RequestedPage(r) == IF r.params.page = None THEN 1 ELSE r.params.page[1]

HasEntry(eid) == \E i \in 1..Len(entries) : entries[i].id = eid

\* the statuses the remote service may answer a request with: the request
\* may always fail in transport (500); it succeeds unless it names an
\* entry that does not exist (404)
Statuses(r) ==
  {500} \cup (IF r.url = "time_entry" /\ ~HasEntry(r.id[1]) THEN {404} ELSE {200})

NewEntry(r) ==
  [id |-> nextId, project_id |-> r.id[1], project |-> None, user |-> None,
   task_id |-> r.json[1].task_id[1], hours |-> r.json[1].hours,
   date |-> r.json[1].date, notes |-> r.json[1].notes[1]]

Updated(e, r) ==
  IF r.json = None THEN e
  ELSE [e EXCEPT !.hours = IF r.json[1].hours = None THEN @ ELSE r.json[1].hours,
                 !.notes = IF r.json[1].notes = None THEN @ ELSE r.json[1].notes[1]]

Without(l, eid) == SelectSeq(l, LAMBDA e : e.id # eid)

\* the time entries after the remote service has carried out request r
EntriesAfter(r, status) ==
  IF status # 200 THEN entries
  ELSE CASE r.method = "POST" -> Append(entries, NewEntry(r))
         [] r.method = "PUT" ->
              [i \in 1..Len(entries) |->
                 IF entries[i].id = r.id[1] THEN Updated(entries[i], r) ELSE entries[i]]
         [] r.method = "DELETE" -> Without(entries, r.id[1])
         [] OTHER -> entries

\* the JSON document of the answer
JsonOf(r, status) ==
  IF status # 200 THEN <<>>
  ELSE CASE r.method = "GET" -> PageOf(ListingOf(r), RequestedPage(r))
         [] r.method = "POST" -> <<NewEntry(r)>>
         [] r.method = "PUT" ->
              SelectSeq(EntriesAfter(r, status), LAMBDA e : e.id = r.id[1])
         [] OTHER -> <<>>

(***************************************************************************)
(* Name resolution (find_project_id, and the task loop of                  *)
(* create_time_entry) and the aggregation of fetched entries.              *)
(***************************************************************************)
Matches(query, name) == Contains(Lower(query), Lower(name))

\* for x in listing: if query.lower() in x["name"].lower(): return x["id"]
FirstMatch(listing, query) ==
  LET hits == {i \in 1..Len(listing) : Matches(query, listing[i].name)}
  IN  IF hits = {} THEN None
      ELSE Some(listing[CHOOSE i \in hits : \A j \in hits : i <= j].id)

find_project_id(all_projects, project_name) == FirstMatch(all_projects, project_name)

Names(listing) == [i \in 1..Len(listing) |-> listing[i].name]

Unknown == <<"U", "n", "k", "n", "o", "w", "n">>

\* entry.get("hours", 0)
HoursOf(e) == IF e.hours = None THEN 0 ELSE e.hours[1]

\* entry.get("project", {}).get("name", "Unknown")
ProjectKey(e) == IF e.project = None THEN Unknown ELSE e.project[1]

\* entry.get("date", "Unknown")
DateKey(e) == IF e.date = None THEN Unknown ELSE e.date[1]

\* entry.get("user", {}).get("first_name", "Unknown")
UserKey(e) == IF e.user = None THEN Unknown ELSE e.user[1]

RECURSIVE SumHours(_)
\* sum(entry.get("hours", 0) for entry in entries)
SumHours(es) ==
  IF es = <<>> THEN 0 ELSE HoursOf(es[1]) + SumHours(Tail(es))

HasKey(dict, k) == \E i \in 1..Len(dict) : dict[i][1] = k

\* d[k] = d.get(k, 0) + v: a new key goes last, an old key keeps its place
DictAdd(dict, k, v) ==
  IF HasKey(dict, k)
  THEN [i \in 1..Len(dict) |->
          IF dict[i][1] = k THEN <<k, dict[i][2] + v>> ELSE dict[i]]
  ELSE Append(dict, <<k, v>>)

RECURSIVE GroupHours(_, _, _)
\* the loop "for entry in entries: d[key] = d.get(key, 0) + hours"
GroupHours(es, kind, dict) ==
  IF es = <<>> THEN dict
  ELSE LET e == es[1]
           k == CASE kind = "project" -> ProjectKey(e)
                  [] kind = "date" -> DateKey(e)
                  [] OTHER -> UserKey(e)
       IN  GroupHours(Tail(es), kind, DictAdd(dict, k, HoursOf(e)))

RECURSIVE InsertDesc(_, _)
\* item placed after every item whose hours are >= its own
InsertDesc(sorted, item) ==
  IF sorted = <<>> THEN <<item>>
  ELSE IF sorted[1][2] >= item[2]
       THEN <<sorted[1]>> \o InsertDesc(Tail(sorted), item)
       ELSE <<item>> \o sorted

\* insertion that puts an item before the items of equal hours
RECURSIVE InsertDescUnstable(_, _)
InsertDescUnstable(sorted, item) ==
  IF sorted = <<>> THEN <<item>>
  ELSE IF sorted[1][2] > item[2]
       THEN <<sorted[1]>> \o InsertDescUnstable(Tail(sorted), item)
       ELSE <<item>> \o sorted

RECURSIVE SortedByHoursReversed(_)
\* the ascending sort read backwards: equal hours come out in reverse order
SortedByHoursReversed(items) ==
  IF items = <<>> THEN <<>>
  ELSE InsertDescUnstable(SortedByHoursReversed(SubSeq(items, 1, Len(items) - 1)),
                          items[Len(items)])

RECURSIVE SortedByHours(_)
\* dict(sorted(d.items(), key=lambda x: x[1], reverse=True)): sorted() is
\* stable, also with reverse=True, so equal hours keep their dict order
SortedByHours(items) ==
  IF items = <<>> THEN <<>>
  ELSE InsertDesc(SortedByHours(SubSeq(items, 1, Len(items) - 1)), items[Len(items)])

\* n / d: the quotient as the pair <<n, d>>, or None for ZeroDivisionError
Divide(n, d) == IF d = 0 THEN None ELSE Some(<<n, d>>)

\* the average without max(1, ...)
AveragePerDayUnguarded(total, daily_hours) == Divide(total, Len(daily_hours))

\* total_hours / max(1, len(daily_hours))
AveragePerDay(total, daily_hours) == Divide(total, Max(1, Len(daily_hours)))

(***************************************************************************)
(* The period of get_time_summary_by_period: the window <<start, end>> as  *)
(* two strings, None when the computation raises, and <<"invalid">> for a   *)
(* period that is none of the three.                                       *)
(***************************************************************************)
\* target_date - timedelta(days=target_date.weekday())
StartOfWeek(target_date) == AddDays(target_date, -Weekday(target_date))

\* the first day of the next month, January of year + 1 after a December
NextMonth(target_date) ==
  IF target_date.m = 12
  THEN Replace(target_date.y + 1, 1, 1)
  ELSE Replace(target_date.y, target_date.m + 1, 1)

PeriodWindow(period, target_date) ==
  CASE period = "day" ->
         Some(<<Strftime(target_date), Strftime(target_date)>>)
    [] period = "week" ->
         LET start_of_week == StartOfWeek(target_date)
         IN  IF start_of_week = None THEN None
             ELSE LET end_of_week == AddDays(start_of_week[1], 6)
                  IN  IF end_of_week = None THEN None
                      ELSE Some(<<Strftime(start_of_week[1]), Strftime(end_of_week[1])>>)
    [] period = "month" ->
         LET first == Replace(target_date.y, target_date.m, 1)
             next_month == NextMonth(target_date)
         IN  IF next_month = None THEN None
             ELSE LET last == AddDays(next_month[1], -1)
                  IN  IF last = None THEN None
                      ELSE Some(<<Strftime(first[1]), Strftime(last[1])>>)
    [] OTHER -> Some(<<"invalid">>)

(***************************************************************************)
(* Tool invocations and what they return.                                  *)
(***************************************************************************)
NoCall ==
  [tool |-> "none", project |-> None, task |-> <<>>, hours |-> None,
   date |-> None, end_date |-> None, notes |-> None, entry_id |-> 0,
   period |-> "week"]

\* a returned dict: an absent key is None
NoResult ==
  [error |-> None, available_projects |-> None, available_tasks |-> None,
   success |-> FALSE, project_id |-> None, date_range |-> None,
   total_entries |-> None, total_hours |-> None, hours_by_user |-> None,
   hours_by_project |-> None, hours_by_date |-> None,
   average_hours_per_day |-> None, entries |-> None, entry |-> None,
   projects |-> None, tasks |-> None, total_users |-> None,
   active_users_last_7_days |-> None, total_hours_last_7_days |-> None,
   average_hours_per_active_user |-> None, users |-> None]

Error(msg) == [NoResult EXCEPT !.error = Some(msg)]

InvalidDate == "Invalid date format. Use YYYY-MM-DD"

NoFields == "Must provide either hours or notes to update"

InvalidPeriod == "Period must be 'day', 'week', or 'month'"

\* the "except Exception as e" clause of each tool
Failed(tool) ==
  CASE tool = "get_time_entries" -> "Failed to fetch time entries"
    [] tool = "create_time_entry" -> "Failed to create time entry"
    [] tool = "update_time_entry" -> "Failed to update time entry"
    [] tool = "delete_time_entry" -> "Failed to delete time entry"
    [] tool = "list_projects" -> "Failed to fetch projects"
    [] tool = "get_project_tasks" -> "Failed to fetch project tasks"
    [] tool = "get_team_overview" -> "Failed to fetch team overview"
    [] OTHER -> "Failed to get time summary"

Tools ==
  {"get_time_entries", "create_time_entry", "update_time_entry",
   "delete_time_entry", "list_projects", "get_project_tasks",
   "get_time_summary_by_period", "get_team_overview"}

\* the tools without date validation
RejectedNever(date) == FALSE

\* "if start_date: datetime.strptime(start_date, ...)": a date that is given
\* and that strptime rejects
Rejected(date) == ~FalsyStr(date) /\ Strptime(date[1]) = None

\* the invocation starts: fresh locals, nothing issued yet
Begin(c, where, res) ==
  /\ call' = c
  /\ pc' = where
  /\ page' = 1
  /\ acc' = <<>>
  /\ project_id' = None
  /\ task_id' = None
  /\ users' = <<>>
  /\ inflight' = <<>>
  /\ log' = <<>>
  /\ result' = res
  /\ failedAt' = 0
  /\ UNCHANGED <<remote, history>>

Return(r) ==
  /\ pc' = "done"
  /\ result' = Some(r)

\* get_all_projects() / get_all_time_entries(): all = [], page = 1
StartListing ==
  /\ page' = 1
  /\ acc' = <<>>

\* await make_request(...): the request goes out and the coroutine waits
Issue(r) ==
  /\ inflight = <<>>
  /\ pc # "done"
  /\ inflight' = Append(inflight, r)
  /\ log' = Append(log, r)
  /\ UNCHANGED <<remote, call, pc, locals, result, failedAt, history>>

\* the remote service answers the request in flight with status st
Answered(st) ==
  /\ inflight # <<>>
  /\ st \in Statuses(inflight[1])
  /\ inflight' = Tail(inflight)
  /\ entries' = EntriesAfter(inflight[1], st)
  /\ nextId' = IF st = 200 /\ inflight[1].method = "POST" THEN nextId + 1 ELSE nextId
  /\ failedAt' = IF st # 200 /\ failedAt = 0 THEN Len(log) ELSE failedAt
  /\ UNCHANGED <<projects, tasks, remote_users, call, log>>

\* what the await evaluates to
Reply(st) == make_request_result(st, JsonOf(inflight[1], st))

(***************************************************************************)
(* Invocation: each tool up to its first request.                          *)
(***************************************************************************)
get_time_entries_begin(c) ==
  /\ c.tool = "get_time_entries"
  /\ IF Rejected(c.date) \/ Rejected(c.end_date)
     THEN /\ Begin(c, "done", Some(Error(InvalidDate)))
          /\ window' = <<None, None>>
     ELSE /\ Begin(c, IF FalsyStr(c.project) THEN "entries" ELSE "find_project", None)
          /\ window' = <<c.date, c.end_date>>
  /\ anchor' = None

create_time_entry_begin(c) ==
  /\ c.tool = "create_time_entry"
  /\ IF Strptime(c.date[1]) = None
     THEN /\ Begin(c, "done", Some(Error(InvalidDate)))
     ELSE Begin(c, "find_project", None)
  /\ window' = <<None, None>>
  /\ anchor' = None

update_time_entry_begin(c) ==
  /\ c.tool = "update_time_entry"
  /\ IF c.hours = None /\ c.notes = None
     THEN /\ Begin(c, "done", Some(Error(NoFields)))
     ELSE Begin(c, "update", None)
  /\ window' = <<None, None>>
  /\ anchor' = None

delete_time_entry_begin(c) ==
  /\ c.tool = "delete_time_entry"
  /\ Begin(c, "delete", None)
  /\ window' = <<None, None>>
  /\ anchor' = None

list_projects_begin(c) ==
  /\ c.tool = "list_projects"
  /\ Begin(c, "all_projects", None)
  /\ window' = <<None, None>>
  /\ anchor' = None

get_project_tasks_begin(c) ==
  /\ c.tool = "get_project_tasks"
  /\ Begin(c, "find_project", None)
  /\ window' = <<None, None>>
  /\ anchor' = None

\* today is datetime.now(), read when the tool starts
get_time_summary_by_period_begin(c, today) ==
  /\ c.tool = "get_time_summary_by_period"
  /\ IF c.period \notin {"day", "week", "month"}
     THEN /\ Begin(c, "done", Some(Error(InvalidPeriod)))
          /\ window' = <<None, None>>
          /\ anchor' = None
     ELSE LET target_date == IF FalsyStr(c.date) THEN Some(today) ELSE Strptime(c.date[1])
              range == IF target_date = None THEN None
                       ELSE PeriodWindow(c.period, target_date[1])
          IN  IF range = None
              THEN /\ Begin(c, "done", Some(Error(Failed(c.tool))))
                   /\ window' = <<None, None>>
                   /\ anchor' = target_date
              ELSE /\ Begin(c, "entries", None)
                   /\ window' = <<Some(range[1][1]), Some(range[1][2])>>
                   /\ anchor' = target_date

(***************************************************************************)
(* Requests: each TickAPI method called at the invocation's position.      *)
(***************************************************************************)
get_projects ==
  /\ pc \in {"find_project", "available", "all_projects"}
  /\ Issue(TickAPI_get_projects(page))

get_time_entries ==
  /\ pc = "entries"
  /\ Issue(TickAPI_get_time_entries(project_id, window[1], window[2], page))

get_tasks ==
  /\ pc = "tasks"
  /\ Issue(TickAPI_get_tasks(project_id[1]))

create_time_entry ==
  /\ pc = "create"
  /\ Issue(TickAPI_create_time_entry(project_id[1], task_id[1], call.hours[1],
                                     call.date[1], call.notes[1]))

update_time_entry ==
  /\ pc = "update"
  /\ Issue(TickAPI_update_time_entry(call.entry_id, call.hours, call.notes))

delete_time_entry ==
  /\ pc = "delete"
  /\ Issue(TickAPI_delete_time_entry(call.entry_id))

(***************************************************************************)
(* Answers: the code that runs when the awaited request completes, up to   *)
(* the next request or the tool's return.                                  *)
(***************************************************************************)
\* a request that failed is sent once more before the error is returned
raise_for_status_retry ==
  /\ inflight # <<>>
  /\ \E st \in Statuses(inflight[1]) :
       /\ make_request_result(st, <<>>).raised
       /\ IF failedAt = 0
          THEN /\ log' = Append(log, inflight[1])
               /\ failedAt' = Len(log)
               /\ UNCHANGED <<remote, call, pc, locals, inflight, result, history>>
          ELSE /\ Answered(st)
               /\ Return(Error(Failed(call.tool)))
               /\ UNCHANGED <<locals, history>>

\* raise_for_status() raised: no function on the way catches it, the tool's
\* "except Exception" returns the error value
raise_for_status ==
  /\ inflight # <<>>
  /\ \E st \in Statuses(inflight[1]) :
       /\ make_request_result(st, <<>>).raised
       /\ Answered(st)
       /\ Return(Error(Failed(call.tool)))
       /\ UNCHANGED <<locals, history>>

\* the page put in front of the pages fetched so far
ExtendFront(all, items) == items \o all

\* all_projects.extend(projects) / all_entries.extend(entries)
Extend(all, items) == all \o items

\* page += 2
SkipPage(p) == p + 2

\* page += 1
NextPage(p) == p + 1

\* "if not projects: break" did not break: extend and go on
get_all_projects ==
  /\ pc \in {"find_project", "available", "all_projects"}
  /\ inflight # <<>>
  /\ \E st \in Statuses(inflight[1]) :
       /\ Answered(st)
       /\ LET reply == Reply(st)
          IN  /\ ~reply.raised
              /\ reply.value # <<>>
              /\ acc' = Extend(acc, reply.value)
       /\ page' = NextPage(page)
       /\ UNCHANGED <<pc, result, project_id, task_id, window, anchor, users, history>>

get_all_time_entries ==
  /\ pc = "entries"
  /\ inflight # <<>>
  /\ \E st \in Statuses(inflight[1]) :
       /\ Answered(st)
       /\ LET reply == Reply(st)
          IN  /\ ~reply.raised
              /\ reply.value # <<>>
              /\ acc' = Extend(acc, reply.value)
       /\ page' = NextPage(page)
       /\ UNCHANGED <<pc, result, project_id, task_id, window, anchor, users, history>>

\* the last (empty) page of a listing has been answered
LastPage(where, st) ==
  /\ pc \in where
  /\ Answered(st)
  /\ LET reply == Reply(st)
     IN  ~reply.raised /\ reply.value = <<>>

\* "if not project_id:" / "if not task_id:"
NotFound(id) == FalsyInt(id)

ProjectNotFound == "Project not found"

TaskNotFound == "Task not found"

\* get_time_entries: find_project_id returned
get_time_entries_found ==
  /\ call.tool = "get_time_entries"
  /\ inflight # <<>>
  /\ \E st \in Statuses(inflight[1]) :
       /\ LastPage({"find_project"}, st)
       /\ project_id' = find_project_id(acc, call.project[1])
       /\ pc' = IF NotFound(project_id') THEN "available" ELSE "entries"
       /\ StartListing
       /\ UNCHANGED <<result, task_id, window, anchor, users, history>>

\* get_time_entries: the second get_all_projects, for the names
get_time_entries_not_found ==
  /\ call.tool = "get_time_entries"
  /\ inflight # <<>>
  /\ \E st \in Statuses(inflight[1]) :
       /\ LastPage({"available"}, st)
       /\ Return([Error(ProjectNotFound) EXCEPT
                    !.available_projects = Some(Names(acc))])
       /\ UNCHANGED <<locals, history>>

\* get_time_entries: get_all_time_entries returned; the summary
get_time_entries_return ==
  /\ call.tool = "get_time_entries"
  /\ inflight # <<>>
  /\ \E st \in Statuses(inflight[1]) :
       /\ LastPage({"entries"}, st)
       /\ Return([NoResult EXCEPT
                    !.project_id = project_id,
                    !.date_range = Some(window),
                    !.total_entries = Some(Len(acc)),
                    !.total_hours = Some(SumHours(acc)),
                    !.hours_by_user = Some(GroupHours(acc, "user", <<>>)),
                    !.entries = Some(acc)])
       /\ UNCHANGED <<locals, history>>

\* create_time_entry: find_project_id returned
create_time_entry_found ==
  /\ call.tool = "create_time_entry"
  /\ inflight # <<>>
  /\ \E st \in Statuses(inflight[1]) :
       /\ LastPage({"find_project"}, st)
       /\ project_id' = find_project_id(acc, call.project[1])
       /\ IF NotFound(project_id')
          THEN Return(Error(ProjectNotFound))
          ELSE pc' = "tasks" /\ UNCHANGED result
       /\ UNCHANGED <<page, acc, task_id, window, anchor, users, history>>

\* create_time_entry: get_tasks returned; the task loop
create_time_entry_tasks ==
  /\ call.tool = "create_time_entry"
  /\ pc = "tasks"
  /\ inflight # <<>>
  /\ \E st \in Statuses(inflight[1]) :
       /\ Answered(st)
       /\ ~Reply(st).raised
       /\ task_id' = FirstMatch(Reply(st).value, call.task)
       /\ IF NotFound(task_id')
          THEN Return([Error(TaskNotFound) EXCEPT
                         !.available_tasks = Some(Names(Reply(st).value))])
          ELSE pc' = "create" /\ UNCHANGED result
       /\ UNCHANGED <<page, acc, project_id, window, anchor, users, history>>

\* create_time_entry: the POST returned
create_time_entry_return ==
  /\ call.tool = "create_time_entry"
  /\ pc = "create"
  /\ inflight # <<>>
  /\ \E st \in Statuses(inflight[1]) :
       /\ Answered(st)
       /\ ~Reply(st).raised
       /\ Return([NoResult EXCEPT !.success = TRUE, !.entry = Some(Reply(st).value)])
       /\ created' = IF Reply(st).value = <<>> THEN created
                     ELSE Some(Reply(st).value[1].id)
       /\ UNCHANGED <<locals, others, disturbed>>

update_time_entry_return ==
  /\ pc = "update"
  /\ inflight # <<>>
  /\ \E st \in Statuses(inflight[1]) :
       /\ Answered(st)
       /\ ~Reply(st).raised
       /\ Return([NoResult EXCEPT !.success = TRUE, !.entry = Some(Reply(st).value)])
       /\ UNCHANGED <<locals, history>>

delete_time_entry_return ==
  /\ pc = "delete"
  /\ inflight # <<>>
  /\ \E st \in Statuses(inflight[1]) :
       /\ Answered(st)
       /\ ~Reply(st).raised
       /\ Return([NoResult EXCEPT !.success = TRUE])
       /\ UNCHANGED <<locals, history>>

list_projects_return ==
  /\ inflight # <<>>
  /\ \E st \in Statuses(inflight[1]) :
       /\ LastPage({"all_projects"}, st)
       /\ Return([NoResult EXCEPT !.total_entries = Some(Len(acc)),
                                  !.projects = Some(acc)])
       /\ UNCHANGED <<locals, history>>

\* get_project_tasks: find_project_id returned
get_project_tasks_found ==
  /\ call.tool = "get_project_tasks"
  /\ inflight # <<>>
  /\ \E st \in Statuses(inflight[1]) :
       /\ LastPage({"find_project"}, st)
       /\ project_id' = find_project_id(acc, call.project[1])
       /\ IF NotFound(project_id')
          THEN Return(Error(ProjectNotFound))
          ELSE pc' = "tasks" /\ UNCHANGED result
       /\ UNCHANGED <<page, acc, task_id, window, anchor, users, history>>

get_project_tasks_return ==
  /\ call.tool = "get_project_tasks"
  /\ pc = "tasks"
  /\ inflight # <<>>
  /\ \E st \in Statuses(inflight[1]) :
       /\ Answered(st)
       /\ ~Reply(st).raised
       /\ Return([NoResult EXCEPT !.project_id = project_id,
                                  !.total_entries = Some(Len(Reply(st).value)),
                                  !.tasks = Some(Reply(st).value)])
       /\ UNCHANGED <<locals, history>>

\* get_time_summary_by_period: get_all_time_entries returned; the summary
get_time_summary_by_period_return ==
  /\ call.tool = "get_time_summary_by_period"
  /\ inflight # <<>>
  /\ \E st \in Statuses(inflight[1]) :
       /\ LastPage({"entries"}, st)
       /\ LET total_hours == SumHours(acc)
              project_hours == GroupHours(acc, "project", <<>>)
              daily_hours == GroupHours(acc, "date", <<>>)
              average == AveragePerDay(total_hours, daily_hours)
          IN  IF average = None
              THEN Return(Error(Failed(call.tool)))
              ELSE Return([NoResult EXCEPT
                             !.date_range = Some(window),
                             !.total_hours = Some(total_hours),
                             !.total_entries = Some(Len(acc)),
                             !.average_hours_per_day = average,
                             !.hours_by_project = Some(SortedByHours(project_hours)),
                             !.hours_by_date = Some(daily_hours)])
       /\ UNCHANGED <<locals, history>>

(***************************************************************************)
(* The invocations the model tries.                                        *)
(***************************************************************************)
GetTimeEntriesCalls ==
  {[NoCall EXCEPT !.tool = "get_time_entries", !.project = p, !.date = d,
                  !.end_date = e] :
     p \in {None} \cup {Some(q) : q \in ProjectQueries},
     d \in {None, Some(<<>>), Some(Day1Short), Some(NoSuchDay)},
     e \in {None, Some(Day2), Some(Slashes)}}

CreateTimeEntryCalls ==
  {[NoCall EXCEPT !.tool = "create_time_entry", !.project = Some(q), !.task = t,
                  !.hours = Some(2), !.date = Some(d), !.notes = Some(Note)] :
     q \in ProjectQueries, t \in TaskQueries,
     d \in {Day1, NoSuchDay, <<>>}}

\* entry 1 exists whenever the remote service holds an entry; entry 9 never
UpdateTimeEntryCalls ==
  {[NoCall EXCEPT !.tool = "update_time_entry", !.entry_id = i, !.hours = h,
                  !.notes = n] :
     i \in {1, 9}, h \in {None, Some(0), Some(5)},
     n \in {None, Some(<<>>), Some(Note)}}

DeleteTimeEntryCalls ==
  {[NoCall EXCEPT !.tool = "delete_time_entry", !.entry_id = i] : i \in {1, 9}}

ListProjectsCalls == {[NoCall EXCEPT !.tool = "list_projects"]}

GetProjectTasksCalls ==
  {[NoCall EXCEPT !.tool = "get_project_tasks", !.project = Some(q)] :
     q \in ProjectQueries}

SummaryCall(period, d) ==
  [NoCall EXCEPT !.tool = "get_time_summary_by_period", !.period = period,
                 !.date = d]

GetTimeSummaryCalls ==
  {SummaryCall(p, d) : p \in {"day", "week", "month", "year"},
                       d \in {None, Some(Day1), Some(NoSuchDay)}}

Calls ==
  GetTimeEntriesCalls \cup CreateTimeEntryCalls \cup UpdateTimeEntryCalls
    \cup DeleteTimeEntryCalls \cup ListProjectsCalls \cup GetProjectTasksCalls
    \cup GetTimeSummaryCalls

\* datetime.now() when the tool starts
Todays == {[y |-> 2024, m |-> 3, d |-> 1], [y |-> 2024, m |-> 12, d |-> 31]}

(***************************************************************************)
(* Spec: one invocation of any tool against a remote service whose project *)
(* listing, task listing or number of time entries varies.                 *)
(***************************************************************************)
Idle ==
  /\ pc = "idle"
  /\ page = 1
  /\ acc = <<>>
  /\ project_id = None
  /\ task_id = None
  /\ users = <<>>
  /\ window = <<None, None>>
  /\ anchor = None
  /\ inflight = <<>>
  /\ log = <<>>
  /\ result = None
  /\ failedAt = 0
  /\ created = None
  /\ others = 0
  /\ disturbed = FALSE

\* the invocations that read the project listing, with the dates left out
ProjectCalls ==
  {c \in GetTimeEntriesCalls : c.date = None /\ c.end_date = None}
    \cup {c \in CreateTimeEntryCalls : c.date = Some(Day1)}
    \cup ListProjectsCalls \cup GetProjectTasksCalls

\* the invocations that read the task listing
TaskCalls ==
  {c \in CreateTimeEntryCalls : c.date = Some(Day1)} \cup GetProjectTasksCalls

Init ==
  /\ Idle
  /\ \/ /\ projects \in ProjectListings
        /\ tasks = StockTasks
        /\ entries = StockEntries(2)
        /\ call \in ProjectCalls
     \/ /\ projects = StockProjects
        /\ tasks \in TaskListings
        /\ entries = StockEntries(2)
        /\ call \in TaskCalls
     \/ /\ projects = StockProjects
        /\ tasks = StockTasks
        /\ \E n \in 0..MaxEntries : entries = StockEntries(n)
        /\ call \in Calls
  /\ nextId = Len(entries) + 1
  /\ remote_users = <<>>

get_time_entries_tool == pc = "idle" /\ get_time_entries_begin(call)

create_time_entry_tool == pc = "idle" /\ create_time_entry_begin(call)

update_time_entry_tool == pc = "idle" /\ update_time_entry_begin(call)

delete_time_entry_tool == pc = "idle" /\ delete_time_entry_begin(call)

list_projects_tool == pc = "idle" /\ list_projects_begin(call)

get_project_tasks_tool == pc = "idle" /\ get_project_tasks_begin(call)

get_time_summary_by_period_tool ==
  /\ pc = "idle"
  /\ \E today \in Todays : get_time_summary_by_period_begin(call, today)

Next ==
  \/ get_time_entries_tool
  \/ create_time_entry_tool
  \/ update_time_entry_tool
  \/ delete_time_entry_tool
  \/ list_projects_tool
  \/ get_project_tasks_tool
  \/ get_time_summary_by_period_tool
  \/ get_projects
  \/ get_time_entries
  \/ get_tasks
  \/ create_time_entry
  \/ update_time_entry
  \/ delete_time_entry
  \/ raise_for_status
  \/ get_all_projects
  \/ get_all_time_entries
  \/ get_time_entries_found
  \/ get_time_entries_not_found
  \/ get_time_entries_return
  \/ create_time_entry_found
  \/ create_time_entry_tasks
  \/ create_time_entry_return
  \/ update_time_entry_return
  \/ delete_time_entry_return
  \/ list_projects_return
  \/ get_project_tasks_found
  \/ get_project_tasks_return
  \/ get_time_summary_by_period_return

Spec == Init /\ [][Next]_vars

(***************************************************************************)
(* Properties.                                                             *)
(***************************************************************************)
Done == pc = "done"

\* the invocation ended and no request of it failed in transport
Finished == pc = "done" /\ failedAt = 0 /\ result # None

\* the number of non-empty pages the remote service serves of a listing
PagesServed(listing) ==
  CHOOSE k \in 0..Len(listing) :
    /\ PageOf(listing, k + 1) = <<>>
    /\ \A j \in 1..k : PageOf(listing, j) # <<>>

RECURSIVE ConcatPages(_, _)
ConcatPages(listing, k) ==
  IF k = 0 THEN <<>> ELSE ConcatPages(listing, k - 1) \o PageOf(listing, k)

EntryRequests ==
  SelectSeq(log, LAMBDA r : r.url \in {"time_entries", "project_time_entries"})

InOrder(requests) == \A i \in 1..Len(requests) : RequestedPage(requests[i]) = i

\* C1: a listing served as k non-empty pages and then an empty page is
\* fetched by get_all_projects and get_all_time_entries with exactly k+1
\* requests, for the pages 1, 2, ..., k+1 in that order, never two requests
\* outstanding at once, and what is returned is the concatenation of the k
\* non-empty pages in page order.
C1_Pagination ==
  /\ Len(inflight) <= 1
  /\ inflight # <<>> => inflight[1] = log[Len(log)]
  /\ call.tool = "list_projects" =>
       /\ \A i \in 1..Len(log) : log[i].url = "projects"
       /\ InOrder(log)
       /\ Len(log) <= PagesServed(projects) + 1
       /\ Finished =>
            /\ Len(log) = PagesServed(projects) + 1
            /\ result[1].projects = Some(ConcatPages(projects, PagesServed(projects)))
  /\ (call.tool \in {"get_time_entries", "get_time_summary_by_period"}
        /\ EntryRequests # <<>>) =>
       LET listing == ListingOf(EntryRequests[1])
       IN  /\ InOrder(EntryRequests)
           /\ Len(EntryRequests) <= PagesServed(listing) + 1
           /\ Finished =>
                /\ Len(EntryRequests) = PagesServed(listing) + 1
                /\ acc = ConcatPages(listing, PagesServed(listing))
                /\ result[1].total_entries = Some(Len(listing))
                /\ call.tool = "get_time_entries" => result[1].entries = Some(acc)

\* C1 witness: get_all_time_entries returned after three non-empty pages and
\* the empty fourth one; get_all_projects after two and the empty third
C1_Witness ==
  /\ Finished
  /\ \/ call.tool = "get_time_entries" /\ Len(EntryRequests) = 4 /\ Len(acc) > 4
     \/ call.tool = "list_projects" /\ Len(log) = 3 /\ Len(acc) = 3

NameTools == {"get_time_entries", "create_time_entry", "get_project_tasks"}

NamedProject == call.project # None /\ call.project[1] # <<>>

\* the places in the remote listing whose lower-cased name contains the
\* lower-cased query
MatchingProjects ==
  {i \in 1..Len(projects) : Contains(Lower(call.project[1]), Lower(projects[i].name))}

ReportedNotFound == result # None /\ result[1].error = Some(ProjectNotFound)

\* C2: with a non-empty project name, get_time_entries, create_time_entry
\* and get_project_tasks proceed with the id of the first project in listing
\* order whose lower-cased name contains the lower-cased query, whatever the
\* ids are, and report not-found only when no project name contains it.
C2_FirstMatchWins ==
  (call.tool \in NameTools /\ NamedProject /\ Finished
     /\ result[1].error # Some(InvalidDate)) =>
    IF MatchingProjects = {}
    THEN ReportedNotFound
    ELSE /\ ~ReportedNotFound
         /\ project_id =
              Some(projects[CHOOSE i \in MatchingProjects :
                              \A j \in MatchingProjects : i <= j].id)

\* C3: a project name or task name without a match is answered with an
\* error value that carries the full list of candidate names, in each of
\* get_time_entries, create_time_entry and get_project_tasks.
C3_NotFoundListsCandidates ==
  (Done /\ result # None) =>
    /\ result[1].error = Some(ProjectNotFound) =>
         result[1].available_projects = Some(Names(projects))
    /\ result[1].error = Some(TaskNotFound) =>
         result[1].available_tasks = Some(Names(tasks))

Succeeded == Finished /\ result[1].success

\* the entry the update names, as the remote service holds it now
Target == SelectSeq(entries, LAMBDA e : e.id = call.entry_id)

\* C6: update_time_entry with hours and notes both absent returns an error
\* and sends nothing; otherwise it sends one PUT whose body holds exactly the
\* fields supplied (hours = 0 and notes = "" are supplied values), and the
\* field not supplied keeps the value the remote entry had.
C6_UpdateSendsSuppliedFields ==
  (call.tool = "update_time_entry" /\ pc # "idle") =>
    IF call.hours = None /\ call.notes = None
    THEN /\ Done
         /\ log = <<>>
         /\ result = Some(Error(NoFields))
    ELSE /\ Len(log) <= 1
         /\ Done => Len(log) = 1
         /\ \A i \in 1..Len(log) :
              /\ log[i].method = "PUT"
              /\ log[i].url = "time_entry"
              /\ log[i].id = Some(call.entry_id)
              /\ log[i].json = Some([NoData EXCEPT !.hours = call.hours,
                                                   !.notes = call.notes])
         /\ Succeeded =>
              /\ Len(Target) = 1
              /\ Target[1].hours =
                   IF call.hours = None THEN StockEntry(call.entry_id).hours
                   ELSE call.hours
              /\ Target[1].notes =
                   IF call.notes = None THEN StockEntry(call.entry_id).notes
                   ELSE call.notes[1]

\* C6 witness: an update of the hours alone to 0 went through, and one of
\* the notes alone to "" did
C6_Witness ==
  /\ call.tool = "update_time_entry"
  /\ Succeeded
  /\ \/ call.hours = Some(0) /\ call.notes = None
     \/ call.hours = None /\ call.notes = Some(<<>>)

Given(date) == date # None /\ date[1] # <<>>

Malformed(date) == date # None /\ Strptime(date[1]) = None

\* what the tools validate: the dates of get_time_entries and
\* get_time_summary_by_period when given, the date of create_time_entry, the
\* two fields of update_time_entry, the period keyword
ValidationFails ==
  CASE call.tool = "get_time_entries" ->
         \/ Given(call.date) /\ Malformed(call.date)
         \/ Given(call.end_date) /\ Malformed(call.end_date)
    [] call.tool = "create_time_entry" -> Malformed(call.date)
    [] call.tool = "update_time_entry" -> call.hours = None /\ call.notes = None
    [] call.tool = "get_time_summary_by_period" ->
         \/ call.period \notin {"day", "week", "month"}
         \/ Given(call.date) /\ Malformed(call.date)
    [] OTHER -> FALSE

C9_FailureAborts ==
  failedAt # 0 =>
    /\ Done
    /\ inflight = <<>>
    /\ Len(log) = failedAt
    /\ result = Some(Error(Failed(call.tool)))

\* C9 witness: the third request of a pagination failed, after two pages
\* had been fetched
C9_Witness ==
  /\ failedAt >= 3
  /\ Done
  /\ Len(acc) > PageSize
  /\ result = Some(Error(Failed(call.tool)))

(***************************************************************************)
(* SpecSummary: get_time_summary_by_period alone, once over every anchor   *)
(* date of three years (a common year, a leap year and the last year of    *)
(* datetime) and once over every small collection of time entries.         *)
(***************************************************************************)
\* longest collection of time entries summarised
MaxSummaryEntries == 3

AnchorYears == {2023, 2024, MAXYEAR}

AnchorDates ==
  {dt \in [y : AnchorYears, m : 1..12, d : 1..31] : ValidDate(dt.y, dt.m, dt.d)}

\* entries of one project that differ in hours and date
DatedEntries ==
  {[i \in 1..Len(s) |-> Entry(i, 1, Some(<<"X">>), Some(<<"u">>), s[i].hours, s[i].key)] :
     s \in SeqsUpTo([hours : {None, Some(1), Some(2)},
                     key : {None, Some(Day1), Some(Day2)}], MaxSummaryEntries)}

\* entries of one day that differ in hours and project
ProjectEntries ==
  {[i \in 1..Len(s) |-> Entry(i, 1, s[i].key, Some(<<"u">>), s[i].hours, Some(Day1))] :
     s \in SeqsUpTo([hours : {Some(1), Some(2)},
                     key : {None, Some(<<"A", "b">>), Some(<<"X">>)}], MaxSummaryEntries)}

InitSummary ==
  /\ Idle
  /\ projects = StockProjects
  /\ tasks = StockTasks
  /\ \/ /\ entries = StockEntries(3)
        /\ call \in {SummaryCall(p, Some(Strftime(dt))) :
                       p \in {"day", "week", "month", "year"}, dt \in AnchorDates}
                    \cup GetTimeSummaryCalls
     \/ /\ entries \in DatedEntries \cup ProjectEntries
        /\ call = SummaryCall("week", Some(Day1))
  /\ nextId = Len(entries) + 1
  /\ remote_users = <<>>

NextSummary ==
  \/ get_time_summary_by_period_tool
  \/ get_time_entries
  \/ raise_for_status
  \/ get_all_time_entries
  \/ get_time_summary_by_period_return

SpecSummary == InitSummary /\ [][NextSummary]_vars

Summarised ==
  /\ call.tool = "get_time_summary_by_period"
  /\ pc # "idle"
  /\ call.period \in {"day", "week", "month"}
  /\ anchor # None

Day(s) == Strptime(s[1])[1]

LastOfMonth(dt) == [y |-> dt.y, m |-> dt.m, d |-> DaysInMonth(dt.y, dt.m)]

\* the window the claim names for the period and anchor
ClaimedWindow(start, end, a) ==
  /\ call.period = "day" => start = a /\ end = a
  /\ call.period = "week" =>
       /\ Weekday(start) = 0
       /\ ToOrdinal(start) <= ToOrdinal(a)
       /\ ToOrdinal(a) - ToOrdinal(start) <= 6
       /\ ToOrdinal(end) = ToOrdinal(start) + 6
  /\ call.period = "month" =>
       /\ start = [y |-> a.y, m |-> a.m, d |-> 1]
       /\ end = LastOfMonth(a)
  /\ ToOrdinal(start) <= ToOrdinal(a)
  /\ ToOrdinal(a) <= ToOrdinal(end)

\* C4: for every anchor date get_time_summary_by_period queries the window
\* day -> the anchor; week -> the Monday on or before the anchor and the six
\* days after it; month -> the first and the last calendar day of the
\* anchor's month, December included; and start <= anchor <= end.
C4_PeriodWindow ==
  Summarised =>
    /\ window[1] # None
    /\ window[2] # None
    /\ Malformed(window[1]) = FALSE
    /\ Malformed(window[2]) = FALSE
    /\ ClaimedWindow(Day(window[1]), Day(window[2]), anchor[1])
    /\ \A i \in 1..Len(log) :
         /\ log[i].params.start_date = window[1]
         /\ log[i].params.end_date = window[2]

\* the anchors whose window ends after 9999-12-31, the last day of datetime,
\* or is computed through January of the year 10000
BeyondCalendar ==
  /\ anchor[1].y = MAXYEAR
  /\ \/ call.period = "month" /\ anchor[1].m = 12
     \/ call.period = "week" /\ ToOrdinal(anchor[1]) - Weekday(anchor[1]) + 6 > MaxOrdinal

\* C4, apart from those anchors: the window is the claimed one; for those
\* anchors the tool returns "Failed to get time summary" and queries nothing
C4_PeriodWindowWithinCalendar ==
  Summarised =>
    IF BeyondCalendar
    THEN Done /\ log = <<>> /\ result = Some(Error(Failed(call.tool)))
    ELSE C4_PeriodWindow

\* get_time_summary_by_period fetched its entries and returned
SummaryReturned ==
  /\ call.tool = "get_time_summary_by_period"
  /\ Finished
  /\ log # <<>>

RECURSIVE TotalOf(_, _)
\* the hours of the first n entries, a missing "hours" counted as 0
TotalOf(es, n) ==
  IF n = 0 THEN 0
  ELSE TotalOf(es, n - 1) + (IF es[n].hours = None THEN 0 ELSE es[n].hours[1])

DateOf(e) == IF e.date = None THEN Unknown ELSE e.date[1]

ProjectOf(e) == IF e.project = None THEN Unknown ELSE e.project[1]

DatesOf(es) == {DateOf(es[i]) : i \in 1..Len(es)}

OnDate(es, d) == SelectSeq(es, LAMBDA e : DateOf(e) = d)

InProject(es, p) == SelectSeq(es, LAMBDA e : ProjectOf(e) = p)

\* C5: get_time_summary_by_period reports total_hours = the sum of the hours
\* of the fetched entries (missing hours are 0), hours_by_date = per distinct
\* date the sum of the hours on that date, and average_hours_per_day =
\* total_hours / max(1, number of distinct dates); with no entries both are
\* 0 and nothing is divided by zero.
C5_SummaryTotals ==
  SummaryReturned =>
    /\ result[1].error = None
    /\ result[1].total_hours = Some(TotalOf(acc, Len(acc)))
    /\ result[1].hours_by_date # None
    /\ LET by_date == result[1].hours_by_date[1]
       IN  /\ {by_date[i][1] : i \in 1..Len(by_date)} = DatesOf(acc)
           /\ Len(by_date) = Cardinality(DatesOf(acc))
           /\ \A i \in 1..Len(by_date) :
                by_date[i][2] = TotalOf(OnDate(acc, by_date[i][1]),
                                        Len(OnDate(acc, by_date[i][1])))
    /\ result[1].average_hours_per_day =
         Some(<<TotalOf(acc, Len(acc)), Max(1, Cardinality(DatesOf(acc)))>>)
    /\ acc = <<>> =>
         /\ result[1].total_hours = Some(0)
         /\ result[1].average_hours_per_day = Some(<<0, 1>>)

\* C5 witness: three entries on two dates, one of them without hours, were
\* summarised (total 3 over 2 days)
C5_Witness ==
  /\ SummaryReturned
  /\ Len(acc) = 3
  /\ \E i \in 1..3 : acc[i].hours = None
  /\ result[1].average_hours_per_day = Some(<<3, 2>>)
  /\ Len(result[1].hours_by_date[1]) = 2

\* the place of the first fetched entry of project p
FirstSeen(p) ==
  CHOOSE i \in 1..Len(acc) :
    ProjectOf(acc[i]) = p /\ \A j \in 1..(i - 1) : ProjectOf(acc[j]) # p

\* C10: hours_by_project lists the projects by summed hours, largest first,
\* and projects with equal sums in the order in which they first appear in
\* the fetched entries.
C10_ProjectsRanked ==
  SummaryReturned =>
    /\ result[1].hours_by_project # None
    /\ LET ranked == result[1].hours_by_project[1]
       IN  /\ {ranked[i][1] : i \in 1..Len(ranked)}
                = {ProjectOf(acc[i]) : i \in 1..Len(acc)}
           /\ \A i \in 1..Len(ranked) :
                ranked[i][2] = TotalOf(InProject(acc, ranked[i][1]),
                                       Len(InProject(acc, ranked[i][1])))
           /\ \A i, j \in 1..Len(ranked) :
                i < j =>
                  /\ ranked[i][2] >= ranked[j][2]
                  /\ ranked[i][2] = ranked[j][2] =>
                       FirstSeen(ranked[i][1]) < FirstSeen(ranked[j][1])

\* C10 witness: three projects, the second fetched has the most hours and
\* the other two are level
C10_Witness ==
  /\ SummaryReturned
  /\ Len(acc) = 3
  /\ result[1].hours_by_project # None
  /\ LET ranked == result[1].hours_by_project[1]
     IN  /\ Len(ranked) = 3
         /\ ranked[1][1] = ProjectOf(acc[2])
         /\ ranked[2][2] = ranked[3][2]
         /\ ranked[1][2] > ranked[2][2]

(***************************************************************************)
(* SpecRoundTrip: create_time_entry, then get_time_entries for the same    *)
(* project over dates that contain the new entry's date, while other       *)
(* clients of the remote service create and delete entries of that         *)
(* project.                                                                *)
(***************************************************************************)
RoundTripCreate ==
  [NoCall EXCEPT !.tool = "create_time_entry", !.project = Some(<<"a", "b">>),
                 !.task = <<"d", "E">>, !.hours = Some(2), !.date = Some(Day1),
                 !.notes = Some(Note)]

RoundTripFetches ==
  {[NoCall EXCEPT !.tool = "get_time_entries", !.project = Some(<<"a", "b">>),
                  !.date = w[1], !.end_date = w[2]] :
     w \in {<<None, None>>, <<Some(Day1), Some(Day2)>>}}

InitRoundTrip ==
  /\ Idle
  /\ projects = StockProjects
  /\ tasks = StockTasks
  /\ \E n \in 0..MaxEntries : entries = StockEntries(n)
  /\ call = RoundTripCreate
  /\ nextId = Len(entries) + 1
  /\ remote_users = <<>>

\* the second invocation, once the create has returned its entry
fetch_after_create ==
  /\ pc = "done"
  /\ call.tool = "create_time_entry"
  /\ created # None
  /\ \E c \in RoundTripFetches : get_time_entries_begin(c)

\* get_all_time_entries has issued its first request and not yet received
\* its last answer
Fetching ==
  /\ call.tool = "get_time_entries"
  /\ pc = "entries"
  /\ (page > 1 \/ inflight # <<>>)

OthersMayAct ==
  /\ created # None
  /\ others < MaxOther
  /\ ~(call.tool = "get_time_entries" /\ pc = "done")

\* another client creates an entry in the project of the round trip
other_create ==
  /\ OthersMayAct
  /\ entries' = Append(entries, Entry(nextId, 2, Some(<<"A", "b">>), Some(<<"u">>),
                                     Some(1), Some(Day1)))
  /\ nextId' = nextId + 1
  /\ others' = others + 1
  /\ disturbed' = (disturbed \/ Fetching)
  /\ UNCHANGED <<projects, tasks, remote_users, call, pc, locals, inflight, log, result,
                 failedAt, created>>

\* another client deletes an entry of that project, not the new one
other_delete ==
  /\ OthersMayAct
  /\ \E i \in 1..Len(entries) :
       /\ entries[i].id # created[1]
       /\ entries[i].project_id = 2
       /\ entries' = Without(entries, entries[i].id)
  /\ others' = others + 1
  /\ disturbed' = (disturbed \/ Fetching)
  /\ UNCHANGED <<projects, tasks, nextId, remote_users, call, pc, locals, inflight, log,
                 result, failedAt, created>>

NextRoundTrip ==
  \/ create_time_entry_tool
  \/ get_projects
  \/ get_tasks
  \/ create_time_entry
  \/ raise_for_status
  \/ get_all_projects
  \/ create_time_entry_found
  \/ create_time_entry_tasks
  \/ create_time_entry_return
  \/ fetch_after_create
  \/ get_time_entries
  \/ get_all_time_entries
  \/ get_time_entries_found
  \/ get_time_entries_return
  \/ other_create
  \/ other_delete

SpecRoundTrip == InitRoundTrip /\ [][NextRoundTrip]_vars

\* the fetch after the create returned its entries
Fetched ==
  /\ call.tool = "get_time_entries"
  /\ Finished
  /\ created # None
  /\ result[1].entries # None

TimesFetched(id) == Len(SelectSeq(result[1].entries[1], LAMBDA e : e.id = id))

\* C7 as stated: after a successful create, a full fetch of the project's
\* entries over dates containing the new entry's date returns the new entry
\* exactly once, also when other creates or deletes on the remote service
\* fall between the page requests of the fetch.
C7_CreatedFetchedOnce == Fetched => TimesFetched(created[1]) = 1

\* C7 as amended: the fetch returns the new entry exactly once when no other
\* create or delete falls between the first page request of the fetch and
\* its last answer.
C7_CreatedFetchedOnceUndisturbed ==
  (Fetched /\ ~disturbed) => TimesFetched(created[1]) = 1

\* C7 witness: other clients changed the listing before the fetch, the
\* fetch ran undisturbed over more than one page and returned the new entry
C7_Witness ==
  /\ Fetched
  /\ ~disturbed
  /\ others > 0
  /\ Len(result[1].entries[1]) > PageSize
  /\ TimesFetched(created[1]) = 1

(***************************************************************************)
(* The mutating requests of create_time_entry, update_time_entry and       *)
(* delete_time_entry.                                                      *)
(***************************************************************************)
MutatingTools == {"create_time_entry", "update_time_entry", "delete_time_entry"}

Mutations == SelectSeq(log, LAMBDA r : r.method \in {"POST", "PUT", "DELETE"})

\* the results that report a validation failure or a name without a match
Refusals == {InvalidDate, NoFields, ProjectNotFound, TaskNotFound}

Refused == Done /\ result # None /\ result[1].error \in {Some(e) : e \in Refusals}

\* the POST follows the project listing and the task listing, and carries
\* the ids of the first project and the first task whose names match
PostAfterResolution ==
  LET post == Mutations[1]
      first_project == FirstMatch(projects, call.project[1])
      first_task == FirstMatch(tasks, call.task)
  IN  /\ post.method = "POST"
      /\ Len(log) >= 3
      /\ log[Len(log) - 1].url = "tasks"
      /\ log[Len(log) - 1].method = "GET"
      /\ \A i \in 1..(Len(log) - 2) :
           log[i].url = "projects" /\ log[i].method = "GET"
      /\ first_project # None
      /\ first_task # None
      /\ post.id = first_project
      /\ log[Len(log) - 1].id = first_project
      /\ post.json # None
      /\ post.json[1].task_id = first_task

\* C11: an invocation of create_time_entry, update_time_entry or
\* delete_time_entry issues at most one mutating request (POST, PUT or
\* DELETE), which is its last request whether it succeeds or fails; the POST
\* of create_time_entry is issued only after the project name and the task
\* name have resolved; an invocation that returns a validation or not-found
\* error has issued no mutating request.
C11_SingleMutation ==
  (call.tool \in MutatingTools /\ pc # "idle") =>
    /\ Len(Mutations) <= 1
    /\ Mutations # <<>> => log[Len(log)] = Mutations[1]
    /\ (call.tool = "create_time_entry" /\ Mutations # <<>>) => PostAfterResolution
    /\ Refused => Mutations = <<>>

\* C11 witness: the POST of create_time_entry failed in transport and the
\* invocation ended with that single POST as its last request
C11_Witness ==
  /\ call.tool = "create_time_entry"
  /\ Done
  /\ failedAt = Len(log)
  /\ Len(Mutations) = 1
  /\ Mutations[1].method = "POST"
  /\ result[1].error = Some(Failed("create_time_entry"))

(***************************************************************************)
(* get_team_overview: the users of the remote service and the hours of     *)
(* their time entries of the last seven days.                              *)
(***************************************************************************)
MaxUsers == 2

MaxRecentEntries == 2

\* url = f"{BASE_URL}/users.json"
TickAPI_get_users == make_request("users", None, "GET", NoData, NoParams)

HasUser(user_activity, user_id) ==
  \E i \in 1..Len(user_activity) : user_activity[i][1] = user_id

RECURSIVE UserActivity(_, _)
\* the loop over recent_entries: user_id = entry.get("user", {}).get("id");
\* "if user_id:" leaves out an entry without a user id or with the id 0
UserActivity(recent_entries, user_activity) ==
  IF recent_entries = <<>> THEN user_activity
  ELSE LET entry == recent_entries[1]
           user_id == entry.user_id
           known == IF FalsyInt(user_id) \/ HasUser(user_activity, user_id[1])
                    THEN user_activity
                    ELSE Append(user_activity,
                                <<user_id[1], [hours |-> 0, entries |-> 0]>>)
           counted == IF FalsyInt(user_id) THEN known
                      ELSE [i \in 1..Len(known) |->
                              IF known[i][1] = user_id[1]
                              THEN <<known[i][1],
                                     [hours |-> known[i][2].hours + HoursOf(entry),
                                      entries |-> known[i][2].entries + 1]>>
                              ELSE known[i]]
       IN  UserActivity(Tail(recent_entries), counted)

\* user_activity.get(user_id, {"hours": 0, "entries": 0})
ActivityOf(user_activity, user_id) ==
  IF HasUser(user_activity, user_id)
  THEN user_activity[CHOOSE i \in 1..Len(user_activity) :
                       user_activity[i][1] = user_id][2]
  ELSE [hours |-> 0, entries |-> 0]

\* the loop over users; name, email and timezone are copied from the user
EnrichedUsers(listing, user_activity) ==
  [i \in 1..Len(listing) |->
     LET activity == ActivityOf(user_activity, listing[i].id)
     IN  [id |-> listing[i].id,
          recent_hours_7_days |-> activity.hours,
          recent_entries_7_days |-> activity.entries,
          is_active |-> activity.hours > 0]]

RECURSIVE TotalRecentHours(_)
\* sum(activity["hours"] for activity in user_activity.values())
TotalRecentHours(user_activity) ==
  IF user_activity = <<>> THEN 0
  ELSE user_activity[1][2].hours + TotalRecentHours(Tail(user_activity))

\* len([u for u in enriched_users if u["is_active"]])
ActiveUsers(enriched_users) ==
  Len(SelectSeq(enriched_users, LAMBDA u : u.is_active))

get_team_overview_begin(c) ==
  /\ c.tool = "get_team_overview"
  /\ Begin(c, "users", None)
  /\ window' = <<None, None>>
  /\ anchor' = None

get_team_overview_tool == pc = "idle" /\ get_team_overview_begin(call)

get_users ==
  /\ pc = "users"
  /\ Issue(TickAPI_get_users)

\* get_users returned; end_date and start_date are taken from two readings
\* of datetime.now(), the second of which may fall on the next day
get_team_overview_users ==
  /\ call.tool = "get_team_overview"
  /\ pc = "users"
  /\ inflight # <<>>
  /\ \E st \in Statuses(inflight[1]) :
       /\ Answered(st)
       /\ LET reply == Reply(st)
          IN  /\ ~reply.raised
              /\ users' = reply.value
       /\ \E today \in Todays, later \in {0, 1} :
            LET end_date == Strftime(today)
                now == AddDays(today, later)
                start == IF now = None THEN None ELSE AddDays(now[1], -7)
            IN  IF start = None
                THEN /\ Return(Error(Failed(call.tool)))
                     /\ UNCHANGED <<page, acc, window>>
                ELSE /\ window' = <<Some(Strftime(start[1])), Some(end_date)>>
                     /\ StartListing
                     /\ pc' = "entries"
                     /\ UNCHANGED result
       /\ UNCHANGED <<project_id, task_id, anchor, history>>

\* get_all_time_entries returned
get_team_overview_return ==
  /\ call.tool = "get_team_overview"
  /\ inflight # <<>>
  /\ \E st \in Statuses(inflight[1]) :
       /\ LastPage({"entries"}, st)
       /\ LET user_activity == UserActivity(acc, <<>>)
              enriched_users == EnrichedUsers(users, user_activity)
              total_recent_hours == TotalRecentHours(user_activity)
              active_users == ActiveUsers(enriched_users)
          IN  Return([NoResult EXCEPT
                        !.total_users = Some(Len(users)),
                        !.active_users_last_7_days = Some(active_users),
                        !.total_hours_last_7_days = Some(total_recent_hours),
                        !.average_hours_per_active_user =
                           Divide(total_recent_hours, Max(1, active_users)),
                        !.users = Some(enriched_users)])
       /\ UNCHANGED <<locals, history>>


UserIds == {0, 1, 2}

\* user listings of distinct ids
UserListings == {l \in SeqsUpTo([id : UserIds], MaxUsers) : DistinctIds(l)}

\* a time entry with the id of its user: listed users, the id 0, a user
\* (7) who is not in the listing, and no user at all
RecentEntry(i, user_id, h) ==
  [user_id |-> user_id] @@ Entry(i, 1, Some(<<"X">>), None, h, Some(Day1))

RecentEntries ==
  {[i \in 1..Len(s) |-> RecentEntry(i, s[i].user_id, s[i].hours)] :
     s \in SeqsUpTo([user_id : {None, Some(0), Some(1), Some(7)},
                     hours : {None, Some(0), Some(2)}], MaxRecentEntries)}

InitOverview ==
  /\ Idle
  /\ projects = StockProjects
  /\ tasks = StockTasks
  /\ entries \in RecentEntries
  /\ nextId = Len(entries) + 1
  /\ remote_users \in UserListings
  /\ call = [NoCall EXCEPT !.tool = "get_team_overview"]

NextOverview ==
  \/ get_team_overview_tool
  \/ get_users
  \/ get_team_overview_users
  \/ get_time_entries
  \/ get_all_time_entries
  \/ raise_for_status
  \/ get_team_overview_return

SpecOverview == InitOverview /\ [][NextOverview]_vars

\* get_team_overview returned its overview
Overviewed ==
  /\ call.tool = "get_team_overview"
  /\ Finished
  /\ result[1].users # None

RECURSIVE ListedHours(_)
\* the sum of recent_hours_7_days over the returned users
ListedHours(us) ==
  IF us = <<>> THEN 0 ELSE us[1].recent_hours_7_days + ListedHours(Tail(us))

ListedActive(us) == Len(SelectSeq(us, LAMBDA u : u.is_active))

\* some fetched entry carries a user id that no returned user has
UnlistedUserEntry ==
  \E i \in 1..Len(acc) :
    /\ ~FalsyInt(acc[i].user_id)
    /\ \A j \in 1..Len(users) : users[j].id # acc[i].user_id[1]

\* C12: in every result of get_team_overview, total_hours_last_7_days is the
\* sum of recent_hours_7_days over the returned users, and
\* average_hours_per_active_user is that sum divided by max(1, the number of
\* returned users with is_active), whatever the user listing and the recent
\* entries are, entries of users absent from the listing included.
C12_TotalIsListedHours ==
  Overviewed =>
    LET us == result[1].users[1]
    IN  /\ result[1].total_hours_last_7_days = Some(ListedHours(us))
        /\ result[1].average_hours_per_active_user =
             Divide(ListedHours(us), Max(1, ListedActive(us)))

\* C12 holds of the results in which every fetched entry with a user id
\* belongs to a returned user
C12_TotalIsListedHoursWhenAllListed ==
  (Overviewed /\ ~UnlistedUserEntry) =>
    LET us == result[1].users[1]
    IN  /\ result[1].total_hours_last_7_days = Some(ListedHours(us))
        /\ result[1].average_hours_per_active_user =
             Divide(ListedHours(us), Max(1, ListedActive(us)))

\* an overview with an active returned user and only listed users' entries
C12_AllListedWitness ==
  /\ Overviewed
  /\ ~UnlistedUserEntry
  /\ ListedActive(result[1].users[1]) > 0
  /\ Len(acc) > 1

=============================================================================
